---- MODULE Spec2Model ----
(***************************************************************************)
(* Conversion job lifecycle and artifact / metadata management of the PPT  *)
(* converter service (src/app/main.py).                                    *)
(*                                                                         *)
(* Strings are modelled as sequences of tokens: a token is a run of        *)
(* characters that the program never splits ("tmp", "pdf", "u1"), and the  *)
(* separators "/" and "." are tokens of their own, so that f-string        *)
(* formatting is concatenation, str.startswith is the prefix relation and  *)
(* Path.suffix / Path.stem / Path.resolve are computed on the text.        *)
(***************************************************************************)
EXTENDS Integers, Sequences, FiniteSets, TLC

\* Number of conversion jobs (job identifiers) one behaviour may start.
MaxJobs == 1

------------------------------------------------------------------------------
\* Text and path helpers (pathlib / str).

UPLOAD_DIR == <<"/", "tmp", "/", "uploads">>
OUTPUT_DIR == <<"/", "tmp", "/", "outputs">>
METADATA_DIR == <<"/", "tmp", "/", "metadata">>

ALLOWED_INPUT_FORMATS == {<<".", "ppt">>, <<".", "pptx">>, <<".", "odp">>}
ALLOWED_OUTPUT_FORMATS == {<<".", "pdf">>, <<".", "odp">>, <<".", "pptx">>, <<".", "html">>}

\* Directories that exist besides the regular files of the state.
Directories ==
  { <<"/">>, <<"/", "tmp">>, UPLOAD_DIR, OUTPUT_DIR, METADATA_DIR,
    <<"/", "tmp", "/", "outputs", "_other">>, <<"/", "etc">> }

\* str.lower on one token
LowerTok(t) ==
  CASE t = "PPTX" -> "pptx"
    [] t = "PPT" -> "ppt"
    [] t = "ODP" -> "odp"
    [] t = "PDF" -> "pdf"
    [] t = "SLIDES" -> "slides"
    [] OTHER -> t

\* str.lower
Lower(s) == [i \in 1..Len(s) |-> LowerTok(s[i])]

\* str.lstrip(".")
RECURSIVE LStripDot(_)
LStripDot(s) == IF s # <<>> /\ Head(s) = "." THEN LStripDot(Tail(s)) ELSE s

\* str.startswith
StartsWith(s, p) == Len(p) <= Len(s) /\ SubSeq(s, 1, Len(p)) = p

\* str.endswith
EndsWith(s, p) == Len(p) <= Len(s) /\ SubSeq(s, Len(s) - Len(p) + 1, Len(s)) = p

\* The components of a path text: the runs of tokens between "/" tokens
\* (empty runs dropped).
RECURSIVE Segments(_)
Segments(s) ==
  IF s = <<>> THEN <<>>
  ELSE IF Head(s) = "/" THEN Segments(Tail(s))
  ELSE LET cut == IF \E i \in 1..Len(s) : s[i] = "/"
                  THEN (CHOOSE i \in 1..Len(s) : s[i] = "/" /\ \A k \in 1..(i-1) : s[k] # "/")
                  ELSE Len(s) + 1
       IN <<SubSeq(s, 1, cut - 1)>> \o Segments(SubSeq(s, cut, Len(s)))

\* The text of an absolute path with the given components.
RECURSIVE Render(_)
Render(segs) ==
  IF segs = <<>> THEN <<"/">>
  ELSE IF Len(segs) = 1 THEN <<"/">> \o segs[1]
  ELSE Render(SubSeq(segs, 1, Len(segs) - 1)) \o <<"/">> \o segs[Len(segs)]

\* Path.__truediv__: an absolute right operand replaces the left one.
Join(dir, name) ==
  IF name # <<>> /\ Head(name) = "/" THEN name ELSE dir \o <<"/">> \o name

\* Collapse "." and ".." components, left to right (no symbolic links).
RECURSIVE Normalize(_, _)
Normalize(done, rest) ==
  IF rest = <<>> THEN done
  ELSE IF Head(rest) = <<".">> THEN Normalize(done, Tail(rest))
  ELSE IF Head(rest) = <<".", ".">>
       THEN Normalize(IF done = <<>> THEN <<>> ELSE SubSeq(done, 1, Len(done) - 1), Tail(rest))
  ELSE Normalize(Append(done, Head(rest)), Tail(rest))

\* str(Path.resolve()) of an absolute path text
Resolve(p) == Render(Normalize(<<>>, Segments(p)))

\* Path.name: the last component
Name(p) == LET segs == Segments(p) IN IF segs = <<>> THEN <<>> ELSE segs[Len(segs)]

\* Path.parent of a resolved path
Parent(p) == LET segs == Segments(p) IN
  IF segs = <<>> THEN <<"/">> ELSE Render(SubSeq(segs, 1, Len(segs) - 1))

\* Position of the "." that starts the suffix of a file name, 0 when the
\* name has no suffix (a leading or a trailing dot starts none).
SuffixAt(name) ==
  LET dots == {i \in 1..Len(name) : name[i] = "."} IN
  IF dots = {} THEN 0
  ELSE LET i == CHOOSE d \in dots : \A e \in dots : e <= d
       IN IF 1 < i /\ i < Len(name) THEN i ELSE 0

\* Path.suffix
Suffix(p) == LET n == Name(p) IN
  IF SuffixAt(n) = 0 THEN <<>> ELSE SubSeq(n, SuffixAt(n), Len(n))

\* Path.stem
Stem(p) == LET n == Name(p) IN
  IF SuffixAt(n) = 0 THEN n ELSE SubSeq(n, 1, SuffixAt(n) - 1)

------------------------------------------------------------------------------
\* State.

VARIABLES
  files,     \* the regular files of the file system (resolved path texts)
  content,   \* what each file of METADATA_DIR holds
  mtime,     \* modification time of each file of OUTPUT_DIR
  clock,     \* the file system's clock
  nextId,    \* number of job identifiers minted so far, plus one
  job,       \* each conversion handler's local variables and position
  resp,      \* the response to the latest request (none while it is handled)
  deleted,   \* names whose DELETE /outputs/{name} returned 200 (history)
  scan       \* the local variables and position of a listing under way

vars == <<files, content, mtime, clock, nextId, job, resp, deleted, scan>>

JobIds == 1..MaxJobs

\* Faulty variant: every job gets the identifier of the first one.
UuidRepeated(n) == <<"u1">>

\* uuid.uuid4(): the n-th identifier minted differs from every other one.
Uuid(n) == <<(<<"u1", "u2", "u3", "u4", "u5", "u6">>)[n]>>

\* Identifier of the artifact that predates this run of the service.
LegacyId == <<"u0">>

NoText == <<>>

Endpoints == {"convert", "convert_default"}

Request(endpoint, filename, output_format, use_tagged_pdf) ==
  [endpoint |-> endpoint, filename |-> filename, output_format |-> output_format,
   use_tagged_pdf |-> use_tagged_pdf]

\* The conversion requests the clients send (/convert_default has no
\* use_tagged_pdf parameter).
Requests ==
  { Request("convert", <<"deck", ".", "pptx">>, <<"pdf">>, TRUE),
    Request("convert", <<"deck", ".", "pptx">>, <<"pdf">>, FALSE),
    Request("convert", <<"SLIDES", ".", "ODP">>, <<"html">>, TRUE),
    Request("convert_default", <<"deck", ".", "pptx">>, <<"pdf">>, FALSE),
    Request("convert", <<"notes", ".", "txt">>, <<"pdf">>, TRUE),
    Request("convert", <<"noext">>, <<"pdf">>, TRUE),
    Request("convert", <<"deck", ".", "pptx">>, <<"docx">>, TRUE),
    Request("convert", <<"deck", ".", "pptx">>, <<"PDF">>, FALSE),
    Request("convert_default", <<"notes", ".", "txt">>, <<"html">>, FALSE),
    Request("convert_default", <<"SLIDES", ".", "ODP">>, <<"docx">>, FALSE) }

\* Files outside the three directories of the service.
SiblingFile == <<"/", "tmp", "/", "outputs", "_other", "/", "x">>
PasswdFile == <<"/", "etc", "/", "passwd">>

\* Names that lead out of OUTPUT_DIR, as a client may put them in
\* /download/{name} and DELETE /outputs/{name}.
CraftedNames ==
  { <<".", ".", "/", ".", ".", "/", "etc", "/", "passwd">>,
    <<".", ".", "/", ".", ".", "/", "etc", "/", "nope">> }

\* The names asked of a store that an earlier run left: the artifact of
\* that run and a file of the sibling directory as well.
StoreNames ==
  CraftedNames \cup { LegacyId \o <<".", "pdf">>,
                      <<".", ".", "/", "outputs", "_other", "/", "x">> }

------------------------------------------------------------------------------
\* File system helpers.

\* Path.is_file()
IsFile(fs, p) == Resolve(p) \in fs

\* Path.exists()
Exists(fs, p) == Resolve(p) \in fs \/ Resolve(p) \in Directories

\* Faulty variant: the call returns and the file is still there.
UnlinkKeepsFile(fs, p) == fs

\* Path.unlink() that succeeds
Unlink(fs, p) == fs \ {Resolve(p)}

\* A resolved path names an entry of the directory dir itself.
InDir(p, dir) ==
  /\ Len(p) > Len(dir) + 1
  /\ SubSeq(p, 1, Len(dir) + 1) = dir \o <<"/">>
  /\ \A i \in (Len(dir) + 2)..Len(p) : p[i] # "/"

\* The files a directory holds (Path.iterdir restricted to regular files).
FilesIn(fs, dir) == {p \in fs : InDir(p, dir)}

\* The names of the files a directory holds.
NamesIn(fs, dir) == {Name(p) : p \in FilesIn(fs, dir)}

\* A function restricted to a subset of its domain.
Restrict(f, S) == [p \in S |-> f[p]]

\* A function with one more (or one replaced) entry.
Put(f, k, v) == [p \in (DOMAIN f) \cup {k} |-> IF p = k THEN v ELSE f[p]]

Idle ==
  [pc |-> "idle", endpoint |-> "", filename |-> NoText, output_format |-> NoText,
   use_tagged_pdf |-> FALSE, file_id |-> NoText, input_file |-> NoText,
   output_file |-> NoText, convert_format |-> NoText, exc |-> "none",
   confirmed |-> {}, metadata_file |-> NoText, cleanups |-> 0,
   preOut |-> {}, preMeta |-> {}, duration |-> 0]

\* No listing is under way.
NoScan ==
  [pc |-> "idle", globbed |-> {}, seen |-> <<>>, entries |-> {}, checked |-> NoText,
   rows |-> {}]

\* A handler that has returned: its local variables are gone.
Done == [Idle EXCEPT !.pc = "done"]

\* A response: the operation, its status and detail, the file served or
\* removed (path), and what the handler did on the way (history).
NoResp ==
  [op |-> "none", name |-> NoText, status |-> 0, detail |-> "",
   path |-> NoText, probed |-> {}, listing |-> <<>>, metadata_removed |-> FALSE,
   job |-> Idle, newOut |-> {}, newMeta |-> {}, stagedLeft |-> FALSE]

\* The event loop runs one handler at a time.
Busy == \E j \in JobIds : job[j].pc \notin {"idle", "done"}

\* The file system after a change: content and mtime follow the files.
FsUpdate(fs, ct, mt) ==
  /\ files' = fs
  /\ content' = Restrict(ct, FilesIn(fs, METADATA_DIR))
  /\ mtime' = Restrict(mt, FilesIn(fs, OUTPUT_DIR))

------------------------------------------------------------------------------
\* Metadata records and the index rebuilt from them.

\* The JSON object a conversion writes. An absent key is the empty text.
MetaRecord(orig, outname, fid, fmt, opts, tagged) ==
  [kind |-> "object", original_filename |-> orig, output_filename |-> outname,
   file_id |-> fid, output_format |-> fmt, has_options |-> opts,
   use_tagged_pdf |-> tagged]

\* A file that open(..., "w") created and json.dump did not complete.
PartialRecord ==
  [kind |-> "partial", original_filename |-> NoText, output_filename |-> NoText,
   file_id |-> NoText, output_format |-> NoText, has_options |-> FALSE,
   use_tagged_pdf |-> FALSE]

\* A file holding well-formed JSON that is not an object (a list, a string).
ValueRecord == [PartialRecord EXCEPT !.kind = "value"]

\* Lines 119-126: json.load sits in the try block, metadata.get after it.
\* A file json.load rejects is skipped; a value that is no dict makes
\* metadata.get raise AttributeError out of load_metadata_index.
IndexRaises(fs, ct) ==
  \E p \in FilesIn(fs, METADATA_DIR) :
    EndsWith(Name(p), <<".", "json">>) /\ ct[p].kind = "value"

\* METADATA_DIR.glob("*.json") restricted to the files json.load accepts
\* as objects.
LoadableRecords(fs, ct) ==
  {p \in FilesIn(fs, METADATA_DIR) :
     EndsWith(Name(p), <<".", "json">>) /\ ct[p].kind = "object"}

\* The key load_metadata_index files a record under in metadata_by_output.
OutputNameOf(ct, p) ==
  IF ct[p].output_filename # NoText THEN ct[p].output_filename ELSE Stem(p)

\* metadata_by_output.get(name): the records filed under name. The dict
\* keeps the one glob yields last, so any of them may be the value; the
\* empty set stands for None.
MetadataByOutput(fs, ct, name) ==
  {ct[p] : p \in {q \in LoadableRecords(fs, ct) :
                    OutputNameOf(ct, q) # NoText /\ OutputNameOf(ct, q) = name}}

\* metadata_by_id.get(id)
MetadataById(fs, ct, id) ==
  {ct[p] : p \in {q \in LoadableRecords(fs, ct) :
                    ct[q].file_id # NoText /\ ct[q].file_id = id}}

\* The outcomes of Path.unlink() on p: it removes a regular file or raises.
UnlinkOutcomes(fs, p) ==
  (IF IsFile(fs, p) THEN {[fs |-> Unlink(fs, p), raised |-> FALSE]} ELSE {})
    \cup {[fs |-> fs, raised |-> TRUE]}

\* delete_metadata_for_output(filename): the possible outcomes, each the
\* file system it leaves, the flag it returns and the exception it raised.
DeleteMetadataForOutput(fs, ct, filename) ==
  LET metadata_path == Join(METADATA_DIR, filename \o <<".", "json">>)
      legacy(m) == Join(METADATA_DIR, m.file_id \o <<".", "json">>)
      unlinked(p) == {[fs |-> o.fs, deleted |-> ~o.raised,
                       raised |-> IF o.raised THEN "OSError" ELSE "none"] :
                        o \in UnlinkOutcomes(fs, p)}
      kept == [fs |-> fs, deleted |-> FALSE, raised |-> "none"]
  IN IF Exists(fs, metadata_path) THEN unlinked(metadata_path)
     ELSE IF IndexRaises(fs, ct) THEN {[kept EXCEPT !.raised = "AttributeError"]}
     ELSE IF MetadataByOutput(fs, ct, filename) = {} THEN {kept}
     ELSE UNION { IF m.file_id # NoText /\ Exists(fs, legacy(m))
                  THEN unlinked(legacy(m))
                  ELSE {kept} :
                  m \in MetadataByOutput(fs, ct, filename) }

------------------------------------------------------------------------------
\* Format policy.

\* Lines 431-432: the lower-cased extension is an allowed input format.
ValidInput(filename) == Lower(Suffix(filename)) \in ALLOWED_INPUT_FORMATS

\* Faulty variant: the output format is not validated.
ValidOutputUnchecked(output_format) == TRUE

\* Line 439: the output format is one of the allowed ones without its dot.
ValidOutput(output_format) ==
  output_format \in {LStripDot(fmt) : fmt \in ALLOWED_OUTPUT_FORMATS}

\* Faulty variant: the format name is passed whatever the options are.
ConvertFormatPlain(endpoint, output_format, use_tagged_pdf) == output_format

\* Lines 456-475 of /convert and 592 of /convert_default: the --convert-to
\* argument.
ConvertFormat(endpoint, output_format, use_tagged_pdf) ==
  IF endpoint = "convert" /\ output_format = <<"pdf">> /\ use_tagged_pdf
  THEN <<"pdf", ":", "impress_pdf_Export", ":", "{", "UseTaggedPDF=true", "}">>
  ELSE output_format

\* The timeout passed to subprocess.run.
ConvertTimeout == 120
ConvertDefaultTimeout == 60

\* Faulty variant: both endpoints wait as long as /convert does.
EngineTimeoutShared(endpoint) == ConvertTimeout

EngineTimeout(endpoint) ==
  IF endpoint = "convert" THEN ConvertTimeout ELSE ConvertDefaultTimeout

------------------------------------------------------------------------------
\* Conversion job runner: /convert and /convert_default.

\* Lines 430-443 and 562-575: the request is rejected with status 400.
ConvertReject(endpoint, filename, output_format) ==
  /\ ~Busy
  /\ ~(ValidInput(filename) /\ ValidOutput(output_format))
  /\ resp' = [NoResp EXCEPT
                !.op = endpoint, !.name = filename, !.status = 400,
                !.detail = IF ~ValidInput(filename) THEN "invalid_input"
                           ELSE "invalid_output",
                !.job = [Idle EXCEPT !.endpoint = endpoint, !.filename = filename,
                                     !.output_format = output_format]]
  /\ UNCHANGED <<files, content, mtime, clock, nextId, job, deleted, scan>>

\* Faulty variant: the upload is staged under the name the client gave.
InputFileOriginal(file_id, filename) == Join(UPLOAD_DIR, filename)

\* Lines 431 and 447 (563 and 579): the staged input is named from the job
\* identifier and the lower-cased suffix of the uploaded file's name.
InputFile(file_id, filename) ==
  LET file_ext == Lower(Suffix(filename))
  IN Join(UPLOAD_DIR, file_id \o file_ext)

\* Lines 445-453 and 577-585: a job identifier is minted, the paths are
\* derived from it and the upload is copied to the staged input file.
\* open() may raise (no file), and so may copyfileobj (a partial file).
ConvertStart(j, endpoint, filename, output_format, use_tagged_pdf, staging) ==
  /\ j = nextId
  /\ ValidInput(filename) /\ ValidOutput(output_format)
  /\ LET file_id == Uuid(j)
         input_file == InputFile(file_id, filename)
         output_file == Join(OUTPUT_DIR, file_id \o <<".">> \o output_format)
         fs == IF staging = "nofile" THEN files ELSE files \cup {Resolve(input_file)}
     IN /\ nextId' = nextId + 1
        /\ job' = [job EXCEPT ![j] =
             [Idle EXCEPT
                !.pc = IF staging = "ok" THEN "invoke" ELSE "finally",
                !.exc = IF staging = "ok" THEN "none" ELSE "OSError",
                !.endpoint = endpoint, !.filename = filename,
                !.output_format = output_format,
                !.use_tagged_pdf = use_tagged_pdf,
                !.file_id = file_id, !.input_file = input_file,
                !.output_file = output_file,
                !.preOut = NamesIn(files, OUTPUT_DIR),
                !.preMeta = NamesIn(files, METADATA_DIR)]]
        /\ FsUpdate(fs, content, mtime)
  /\ resp' = NoResp
  /\ UNCHANGED <<clock, deleted, scan>>

\* The same step in a service that runs one handler at a time.
ConvertBegin(j, endpoint, filename, output_format, use_tagged_pdf, staging) ==
  /\ ~Busy
  /\ ConvertStart(j, endpoint, filename, output_format, use_tagged_pdf, staging)

\* How long the engine runs before it exits, in seconds. The longest one
\* stands for every run that outlasts both timeouts, the engine that never
\* exits on its own included: subprocess.run kills the child at the bound.
EngineDurations == {30, 90, 150}

\* What the engine leaves in the output directory: nothing, the file named
\* after the input file's stem, a file under another name, or (an html
\* export, which comes with companion files) both.
EngineWrites(output_format) ==
  {"none", "named", "other"} \cup (IF output_format = <<"html">> THEN {"both"} ELSE {})

EngineOutput(input_file, output_format, written) ==
  LET named == Resolve(Join(OUTPUT_DIR, Stem(input_file) \o <<".">> \o output_format))
      other == Resolve(Join(OUTPUT_DIR, Stem(input_file) \o <<".", "tmp">>))
  IN CASE written = "none" -> {}
       [] written = "named" -> {named}
       [] written = "other" -> {other}
       [] written = "both" -> {named, other}

\* Lines 455-497 and 587-608: the engine runs as a child process. It is
\* killed when it runs longer than the timeout (TimeoutExpired); otherwise
\* its exit code decides. Whatever it wrote stays in the output directory.
ConvertInvoke(j, duration, returncode, written) ==
  /\ job[j].pc = "invoke"
  /\ LET out == EngineOutput(job[j].input_file, job[j].output_format, written)
         timedOut == duration > EngineTimeout(job[j].endpoint)
     IN /\ job' = [job EXCEPT
             ![j].duration = duration,
             ![j].convert_format =
                ConvertFormat(job[j].endpoint, job[j].output_format, job[j].use_tagged_pdf),
             ![j].pc = IF ~timedOut /\ returncode = 0 THEN "resolve" ELSE "finally",
             ![j].exc = IF timedOut THEN "TimeoutExpired"
                        ELSE IF returncode # 0 THEN "HTTPException_engine_failed"
                        ELSE "none"]
        /\ FsUpdate(files \cup out, content,
                    [p \in (DOMAIN mtime) \cup out |->
                       IF p \in out THEN clock ELSE mtime[p]])
        /\ clock' = IF out = {} THEN clock ELSE clock + 1
  /\ UNCHANGED <<nextId, resp, deleted, scan>>

\* Faulty variant: only the predicted path is looked for.
ResolveOutputNoFallback(fs, output_file, input_file, output_format) ==
  IF Exists(fs, output_file) THEN output_file ELSE NoText

\* Faulty variant: the predicted path is taken without looking for it.
ResolveOutputUnchecked(fs, output_file, input_file, output_format) == output_file

\* Lines 499-510 and 610-621: the output file, or the empty text when
\* neither the predicted path nor the one named after the staged input's
\* stem exists.
ResolveOutput(fs, output_file, input_file, output_format) ==
  IF Exists(fs, output_file) THEN output_file
  ELSE LET base_name == Stem(input_file)
           possible_output == Join(OUTPUT_DIR, base_name \o <<".">> \o output_format)
       IN IF Exists(fs, possible_output) THEN possible_output ELSE NoText

\* Lines 500 and 504 (611 and 615): the paths whose exists() call was made
\* and returned True.
ConfirmedBy(fs, output_file, input_file, output_format) ==
  LET possible_output ==
        Join(OUTPUT_DIR, Stem(input_file) \o <<".">> \o output_format)
  IN IF Exists(fs, output_file) THEN {output_file}
     ELSE IF Exists(fs, possible_output) THEN {possible_output}
     ELSE {}

ConvertResolve(j) ==
  /\ job[j].pc = "resolve"
  /\ LET found == ResolveOutput(files, job[j].output_file, job[j].input_file,
                                job[j].output_format)
     IN job' = [job EXCEPT
          ![j].output_file = IF found = NoText THEN job[j].output_file ELSE found,
          ![j].confirmed = ConfirmedBy(files, job[j].output_file, job[j].input_file,
                                       job[j].output_format),
          ![j].pc = IF found = NoText THEN "finally" ELSE "record",
          ![j].exc = IF found = NoText THEN "HTTPException_output_missing" ELSE "none"]
  /\ UNCHANGED <<files, content, mtime, clock, nextId, resp, deleted, scan>>

\* Lines 513 and 624: the record's path.
MetadataFile(output_file) == Join(METADATA_DIR, Name(output_file) \o <<".", "json">>)

\* Lines 514-523 and 625-631: the record's content.
ConvertMetadata(endpoint, filename, output_file, file_id, output_format, use_tagged_pdf) ==
  MetaRecord(filename, Name(output_file), file_id, output_format,
             endpoint = "convert", endpoint = "convert" /\ use_tagged_pdf)

\* Lines 512-525 and 623-633: the metadata record is written. open() may
\* raise (no file), and so may json.dump (a partial file).
ConvertRecord(j, writing) ==
  /\ job[j].pc = "record"
  /\ LET metadata_file == MetadataFile(job[j].output_file)
         metadata == ConvertMetadata(job[j].endpoint, job[j].filename,
                       job[j].output_file, job[j].file_id, job[j].output_format,
                       job[j].use_tagged_pdf)
         fs == IF writing = "nofile" THEN files ELSE files \cup {Resolve(metadata_file)}
         ct == CASE writing = "ok" -> Put(content, Resolve(metadata_file), metadata)
                 [] writing = "partial" -> Put(content, Resolve(metadata_file), PartialRecord)
                 [] OTHER -> content
     IN /\ job' = [job EXCEPT
             ![j].metadata_file = IF writing = "nofile" THEN NoText ELSE metadata_file,
             ![j].pc = "finally",
             ![j].exc = IF writing = "ok" THEN "none" ELSE "OSError"]
        /\ FsUpdate(fs, ct, mtime)
  /\ UNCHANGED <<clock, nextId, resp, deleted, scan>>

\* Lines 534-543 and 642-651: what the except clauses make of the pending
\* exception. HTTPException is an Exception, so the last clause takes it.
ConvertResult(exc) ==
  CASE exc = "none" -> "ok"
    [] exc = "TimeoutExpired" -> "timeout"
    [] OTHER -> "unexpected"

\* Lines 544-547 and 652-655: the staged input is unlinked when it exists;
\* an unlink that raises replaces the pending result.
CleanupOutcomes(fs, input_file) ==
  IF Exists(fs, input_file) THEN UnlinkOutcomes(fs, input_file)
  ELSE {[fs |-> fs, raised |-> FALSE]}

\* Lines 527-547 and 635-655: the response is built, the finally block runs
\* and the handler ends.
ConvertFinally(j) ==
  /\ job[j].pc = "finally"
  /\ \E o \in CleanupOutcomes(files, job[j].input_file) :
       LET result == IF o.raised THEN "cleanup_raised" ELSE ConvertResult(job[j].exc)
       IN /\ job' = [job EXCEPT ![j] = Done]
          /\ resp' = [NoResp EXCEPT
               !.op = job[j].endpoint, !.name = job[j].filename,
               !.status = IF result = "ok" THEN 200 ELSE 500,
               !.detail = result,
               !.path = IF result = "ok" THEN job[j].output_file ELSE NoText,
               !.job = [job[j] EXCEPT !.pc = "done", !.cleanups = job[j].cleanups + 1,
                                      !.preOut = {}, !.preMeta = {}],
               !.newOut = NamesIn(o.fs, OUTPUT_DIR) \ job[j].preOut,
               !.newMeta = NamesIn(o.fs, METADATA_DIR) \ job[j].preMeta,
               !.stagedLeft = Exists(o.fs, job[j].input_file)]
          /\ FsUpdate(o.fs, content, mtime)
  /\ UNCHANGED <<clock, nextId, deleted, scan>>

------------------------------------------------------------------------------
\* Artifact store: /outputs, /download/{filename}, DELETE /outputs/{filename}.

\* Lines 269-270: the display name of an output file, any of the values the
\* rebuilt index may give.
OriginalFilenames(fs, ct, p) ==
  LET by_output == MetadataByOutput(fs, ct, Name(p))
      by_id == MetadataById(fs, ct, Stem(p))
      metadata == IF by_output # {} THEN by_output ELSE by_id
  IN IF metadata = {} THEN {Name(p)} ELSE {m.original_filename : m \in metadata}

\* Line 285: files.sort(key=modified, reverse=True).
RECURSIVE SortByModified(_)
SortByModified(entries) ==
  IF entries = {} THEN <<>>
  ELSE LET newest == CHOOSE e \in entries : \A f \in entries : f.modified <= e.modified
       IN <<newest>> \o SortByModified(entries \ {newest})

\* Lines 261-290: the listings GET /outputs may return (the size and the
\* download_url of an entry follow from its file and are left out).
ListOutputs(fs, ct, mt) ==
  LET outs == FilesIn(fs, OUTPUT_DIR)
      origs == UNION {OriginalFilenames(fs, ct, p) : p \in outs}
      picks == {f \in [outs -> origs] : \A p \in outs : f[p] \in OriginalFilenames(fs, ct, p)}
  IN {SortByModified({[filename |-> Name(p), original_filename |-> f[p],
                       modified |-> mt[p]] : p \in outs}) : f \in picks}

\* Lines 291-295: an exception under way becomes status 500.
ListOutputsAction ==
  /\ ~Busy
  /\ IF IndexRaises(files, content)
     THEN resp' = [NoResp EXCEPT !.op = "list", !.status = 500,
                                 !.detail = "list_failed"]
     ELSE \E l \in ListOutputs(files, content, mtime) :
            resp' = [NoResp EXCEPT !.op = "list", !.status = 200, !.listing = l]
  /\ UNCHANGED <<files, content, mtime, clock, nextId, job, deleted, scan>>

\* Lines 302-322: the response of GET /download/{filename}: its status, the
\* file it serves, and the paths the handler asked the file system about.
DownloadFile(fs, filename) ==
  LET file_path == Join(OUTPUT_DIR, filename)
      probed == {Resolve(file_path)}
  IN IF ~Exists(fs, file_path) \/ ~IsFile(fs, file_path)
     THEN [status |-> 404, detail |-> "not_found", path |-> NoText, probed |-> probed]
     ELSE IF ~StartsWith(Resolve(file_path), Resolve(OUTPUT_DIR))
     THEN [status |-> 403, detail |-> "access_denied", path |-> NoText, probed |-> probed]
     ELSE [status |-> 200, detail |-> "", path |-> Resolve(file_path), probed |-> probed]

DownloadFileAction(filename) ==
  /\ ~Busy
  /\ LET r == DownloadFile(files, filename)
     IN resp' = [NoResp EXCEPT !.op = "download", !.name = filename,
                   !.status = r.status, !.detail = r.detail,
                   !.path = r.path, !.probed = r.probed]
  /\ UNCHANGED <<files, content, mtime, clock, nextId, job, deleted, scan>>

\* Lines 332-354: the outcomes of DELETE /outputs/{filename}: the file
\* system left, the status, the file unlinked (path) and the paths the
\* handler asked the file system about.
DeleteResult(fs, filename, status, detail) ==
  [fs |-> fs, status |-> status, detail |-> detail, path |-> NoText,
   probed |-> {Resolve(Join(OUTPUT_DIR, filename))}, metadata_removed |-> FALSE]

\* Faulty variant: the metadata record is removed before the file is
\* looked for.
DeleteMissingDropsRecord(fs, ct, filename) ==
  {DeleteResult(m.fs, filename, 404, "not_found") :
     m \in DeleteMetadataForOutput(fs, ct, filename)}

\* Lines 337-338: the file does not exist or is no regular file.
DeleteMissing(fs, ct, filename) == {DeleteResult(fs, filename, 404, "not_found")}

\* Lines 343-354: the file is unlinked, then its metadata record.
DeleteExisting(fs, ct, filename) ==
  LET file_path == Join(OUTPUT_DIR, filename)
  IN UNION {
       IF u.raised
       THEN {DeleteResult(fs, filename, 500, "delete_failed")}
       ELSE {[DeleteResult(m.fs, filename, IF m.raised # "none" THEN 500 ELSE 200,
                           IF m.raised # "none" THEN "unhandled_" \o m.raised ELSE "")
                EXCEPT !.path = Resolve(file_path),
                       !.metadata_removed = m.deleted] :
               m \in DeleteMetadataForOutput(u.fs, ct, filename)} :
       u \in UnlinkOutcomes(fs, file_path)}

DeleteOutput(fs, ct, filename) ==
  LET file_path == Join(OUTPUT_DIR, filename)
  IN IF ~Exists(fs, file_path) \/ ~IsFile(fs, file_path)
     THEN DeleteMissing(fs, ct, filename)
     ELSE IF ~StartsWith(Resolve(file_path), Resolve(OUTPUT_DIR))
     THEN {DeleteResult(fs, filename, 403, "access_denied")}
     ELSE DeleteExisting(fs, ct, filename)

DeleteOutputStep(filename) ==
  /\ \E o \in DeleteOutput(files, content, filename) :
       /\ FsUpdate(o.fs, content, mtime)
       /\ resp' = [NoResp EXCEPT !.op = "delete", !.name = filename,
                     !.status = o.status, !.detail = o.detail,
                     !.path = o.path, !.probed = o.probed,
                     !.metadata_removed = o.metadata_removed]
       /\ deleted' = IF o.status = 200 THEN deleted \cup {filename} ELSE deleted
  /\ UNCHANGED <<clock, nextId, job, scan>>

\* The same handler in a service that runs one handler at a time.
DeleteOutputAction(filename) ==
  /\ ~Busy
  /\ DeleteOutputStep(filename)

------------------------------------------------------------------------------
\* Initial states and the next-state relation.

LegacyArtifact == Resolve(Join(OUTPUT_DIR, LegacyId \o <<".", "pdf">>))
LegacyRecordFile == Resolve(Join(METADATA_DIR, LegacyId \o <<".", "json">>))
NamedRecordFile == Resolve(MetadataFile(LegacyArtifact))

\* What an earlier run of the service may have left in METADATA_DIR for
\* the artifact it left: nothing, a record under the job identifier (with
\* or without the output_filename key), a file there that holds JSON but
\* no object, or a record under the artifact's name.
LegacyRecordKinds == {"none", "by_id", "by_id_bare", "by_id_value", "by_name"}

LegacyRecordFiles(kind) ==
  CASE kind = "none" -> {}
    [] kind \in {"by_id", "by_id_bare", "by_id_value"} -> {LegacyRecordFile}
    [] kind = "by_name" -> {NamedRecordFile}

LegacyRecord(kind) ==
  IF kind = "by_id_bare"
  THEN MetaRecord(<<"old", ".", "ppt">>, NoText, LegacyId, NoText, FALSE, FALSE)
  ELSE IF kind = "by_id_value" THEN ValueRecord
  ELSE MetaRecord(<<"old", ".", "ppt">>, Name(LegacyArtifact), LegacyId, <<"pdf">>,
                  FALSE, FALSE)

\* The service starts on empty directories.
Init ==
  /\ files = {SiblingFile, PasswdFile}
  /\ content = [p \in {} |-> PartialRecord]
  /\ mtime = [p \in {} |-> 0]
  /\ clock = 1
  /\ nextId = 1
  /\ job = [j \in JobIds |-> Idle]
  /\ resp = NoResp
  /\ deleted = {}
  /\ scan = NoScan

\* The service starts on the directories an earlier run left.
InitLegacy ==
  /\ \E arts \in SUBSET {LegacyArtifact} : \E kind \in LegacyRecordKinds :
       /\ files = arts \cup LegacyRecordFiles(kind) \cup {SiblingFile, PasswdFile}
       /\ content = [p \in LegacyRecordFiles(kind) |-> LegacyRecord(kind)]
       /\ mtime = [p \in arts |-> 0]
  /\ clock = 1
  /\ nextId = 1
  /\ job = [j \in JobIds |-> Idle]
  /\ resp = NoResp
  /\ deleted = {}
  /\ scan = NoScan

\* The names a client asks the store for: the given ones, those of the
\* artifacts present, those it has deleted before and the one it asked for
\* last (a retry).
RequestedNames(given) ==
  given \cup NamesIn(files, OUTPUT_DIR) \cup deleted
    \cup (IF resp.op \in {"download", "delete"} THEN {resp.name} ELSE {})

Next ==
  \/ \E r \in Requests : ConvertReject(r.endpoint, r.filename, r.output_format)
  \/ \E j \in JobIds, r \in Requests, s \in {"ok", "partial", "nofile"} :
       ConvertBegin(j, r.endpoint, r.filename, r.output_format, r.use_tagged_pdf, s)
  \/ \E j \in JobIds, d \in EngineDurations, rc \in {0, 1} :
       \E w \in EngineWrites(job[j].output_format) : ConvertInvoke(j, d, rc, w)
  \/ \E j \in JobIds : ConvertResolve(j)
  \/ \E j \in JobIds, w \in {"ok", "partial", "nofile"} : ConvertRecord(j, w)
  \/ \E j \in JobIds : ConvertFinally(j)
  \/ ListOutputsAction
  \/ \E n \in RequestedNames(CraftedNames) : DownloadFileAction(n)
  \/ \E n \in RequestedNames(CraftedNames) : DeleteOutputAction(n)

Spec == Init /\ [][Next]_vars

\* The artifact store alone, on the directories an earlier run left.
NextStore ==
  \/ ListOutputsAction
  \/ \E n \in RequestedNames(StoreNames) : DownloadFileAction(n)
  \/ \E n \in RequestedNames(StoreNames) : DeleteOutputAction(n)

SpecLegacy == InitLegacy /\ [][NextStore]_vars

\* Conversions in a service started with several worker processes: the
\* handlers of different workers interleave at their system calls.
WorkerIds == 1..(MaxJobs + 1)

JobRequests ==
  { Request("convert", <<"deck", ".", "pptx">>, <<"pdf">>, TRUE),
    Request("convert_default", <<"SLIDES", ".", "ODP">>, <<"html">>, FALSE) }

InitJobs ==
  /\ files = {SiblingFile, PasswdFile}
  /\ content = [p \in {} |-> PartialRecord]
  /\ mtime = [p \in {} |-> 0]
  /\ clock = 1
  /\ nextId = 1
  /\ job = [j \in WorkerIds |-> Idle]
  /\ resp = NoResp
  /\ deleted = {}
  /\ scan = NoScan

\* One step of worker j's handler; the engine exits in time, with either
\* exit code.
WorkerStep(j) ==
  \/ \E rc \in {0, 1} : ConvertInvoke(j, 30, rc, "named")
  \/ ConvertResolve(j)
  \/ ConvertRecord(j, "ok")
  \/ ConvertFinally(j)

NextJobs ==
  \/ \E j \in WorkerIds, r \in JobRequests :
       ConvertStart(j, r.endpoint, r.filename, r.output_format, r.use_tagged_pdf, "ok")
  \/ \E j \in WorkerIds : WorkerStep(j)

SpecJobs == InitJobs /\ [][NextJobs]_vars

\* Conversion handlers from their first statement to their return, with
\* every engine run time and every I/O fault.
JobStep(j) ==
  \/ \E d \in EngineDurations, rc \in {0, 1}, w \in {"none", "named"} :
       ConvertInvoke(j, d, rc, w)
  \/ ConvertResolve(j)
  \/ \E w \in {"ok", "partial", "nofile"} : ConvertRecord(j, w)
  \/ ConvertFinally(j)

\* The requests that pass validation.
ValidRequests ==
  {r \in Requests : ValidInput(r.filename) /\ ValidOutput(r.output_format)}

NextHandlers ==
  \/ \E j \in JobIds, r \in ValidRequests, s \in {"ok", "partial", "nofile"} :
       ConvertStart(j, r.endpoint, r.filename, r.output_format, r.use_tagged_pdf, s)
  \/ \E j \in JobIds : JobStep(j)

\* The handler has begun and has not returned. Each of its steps is then
\* possible: the engine call has an outcome for every run time, and the
\* other steps are straight-line code.
Pending(j) == job[j].pc \notin {"idle", "done"}

\* Weak fairness of handler j's steps, WF_vars(JobStep(j)), with
\* ENABLED <<JobStep(j)>>_vars written out as Pending(j): the handler is
\* straight-line code around one engine call that subprocess.run bounds
\* by its timeout, so a handler that can take a step eventually takes it.
FairJob(j) == []<>(~Pending(j)) \/ []<><<JobStep(j)>>_vars

SpecHandlers == Init /\ [][NextHandlers]_vars /\ \A j \in JobIds : FairJob(j)

\* Lines 524-525 and 632-633 one system call at a time. open(..., "w")
\* creates the record file empty, or raises.
ConvertRecordOpen(j, opening) ==
  /\ job[j].pc = "record"
  /\ LET metadata_file == MetadataFile(job[j].output_file)
     IN IF opening = "nofile"
        THEN /\ job' = [job EXCEPT ![j].pc = "finally", ![j].exc = "OSError"]
             /\ UNCHANGED <<files, content, mtime>>
        ELSE /\ job' = [job EXCEPT ![j].metadata_file = metadata_file, ![j].pc = "dump"]
             /\ FsUpdate(files \cup {Resolve(metadata_file)},
                         Put(content, Resolve(metadata_file), PartialRecord), mtime)
  /\ UNCHANGED <<clock, nextId, resp, deleted, scan>>

\* json.dump writes the record through the open file, or raises and leaves
\* it as it is. A file unlinked in the meantime stays absent.
ConvertRecordDump(j, writing) ==
  /\ job[j].pc = "dump"
  /\ LET p == Resolve(job[j].metadata_file)
         metadata == ConvertMetadata(job[j].endpoint, job[j].filename,
                       job[j].output_file, job[j].file_id, job[j].output_format,
                       job[j].use_tagged_pdf)
     IN /\ job' = [job EXCEPT ![j].pc = "finally",
                              ![j].exc = IF writing = "ok" THEN "none" ELSE "OSError"]
        /\ FsUpdate(files,
                    IF writing = "ok" /\ p \in files THEN Put(content, p, metadata)
                    ELSE content,
                    mtime)
  /\ UNCHANGED <<clock, nextId, resp, deleted, scan>>

\* GET /outputs one system call at a time. Line 119: METADATA_DIR.glob
\* enumerates the record files.
ListGlob ==
  /\ scan.pc = "idle"
  /\ scan' = [NoScan EXCEPT
       !.pc = "load",
       !.globbed = {p \in FilesIn(files, METADATA_DIR) : EndsWith(Name(p), <<".", "json">>)}]
  /\ UNCHANGED <<files, content, mtime, clock, nextId, job, resp, deleted>>

\* Lines 120-132: each enumerated record is opened and parsed. A record
\* that is gone, or that json.load rejects, is skipped (the except clause
\* of line 123); one that holds no object raises out of the handler.
ListLoad ==
  /\ scan.pc = "load"
  /\ LET present == scan.globbed \cap files
         seen == [p \in present |-> content[p]]
     IN IF IndexRaises(present, seen)
        THEN /\ resp' = [NoResp EXCEPT !.op = "list", !.status = 500,
                                       !.detail = "list_failed"]
             /\ scan' = [NoScan EXCEPT !.globbed = scan.globbed, !.seen = seen]
        ELSE /\ scan' = [scan EXCEPT !.pc = "iterdir", !.seen = seen]
             /\ UNCHANGED resp
  /\ UNCHANGED <<files, content, mtime, clock, nextId, job, deleted>>

\* Line 265: OUTPUT_DIR.iterdir() enumerates the entries.
ListIterdir ==
  /\ scan.pc = "iterdir"
  /\ scan' = [scan EXCEPT !.pc = "entries", !.entries = FilesIn(files, OUTPUT_DIR)]
  /\ UNCHANGED <<files, content, mtime, clock, nextId, job, resp, deleted>>

\* Line 266: file_path.is_file() on the next entry; False for one that is
\* gone, which the loop then passes over.
ListIsFile(p) ==
  /\ scan.pc = "entries" /\ scan.checked = NoText /\ p \in scan.entries
  /\ scan' = [scan EXCEPT !.entries = scan.entries \ {p},
                          !.checked = IF IsFile(files, p) THEN p ELSE NoText]
  /\ UNCHANGED <<files, content, mtime, clock, nextId, job, resp, deleted>>

\* Lines 267-283: file_path.stat() and the entry's row. stat() raises
\* FileNotFoundError for a file that is gone; the except clause of lines
\* 291-295 turns it into status 500.
ListStat ==
  /\ scan.pc = "entries" /\ scan.checked # NoText
  /\ IF IsFile(files, scan.checked)
     THEN /\ \E original \in OriginalFilenames(DOMAIN scan.seen, scan.seen, scan.checked) :
               scan' = [scan EXCEPT
                 !.checked = NoText,
                 !.rows = scan.rows \cup
                   {[filename |-> Name(scan.checked), original_filename |-> original,
                     modified |-> mtime[scan.checked]]}]
          /\ UNCHANGED resp
     ELSE /\ resp' = [NoResp EXCEPT !.op = "list", !.status = 500,
                                    !.detail = "list_failed"]
          /\ scan' = [NoScan EXCEPT !.globbed = scan.globbed, !.seen = scan.seen]
  /\ UNCHANGED <<files, content, mtime, clock, nextId, job, deleted>>

\* Lines 285-290: the rows are sorted and returned.
ListReturn ==
  /\ scan.pc = "entries" /\ scan.checked = NoText /\ scan.entries = {}
  /\ resp' = [NoResp EXCEPT !.op = "list", !.status = 200,
                            !.listing = SortByModified(scan.rows)]
  /\ scan' = [NoScan EXCEPT !.globbed = scan.globbed, !.seen = scan.seen]
  /\ UNCHANGED <<files, content, mtime, clock, nextId, job, deleted>>

\* A conversion, a listing and deletes in a service started with several
\* worker processes, interleaved at their system calls.
WorkerRequest == Request("convert", <<"deck", ".", "pptx">>, <<"pdf">>, TRUE)

NextWorkers ==
  \/ \E j \in JobIds :
       ConvertStart(j, WorkerRequest.endpoint, WorkerRequest.filename,
                    WorkerRequest.output_format, WorkerRequest.use_tagged_pdf, "ok")
  \/ \E j \in JobIds : ConvertInvoke(j, 30, 0, "named")
  \/ \E j \in JobIds : ConvertResolve(j)
  \/ \E j \in JobIds, o \in {"ok", "nofile"} : ConvertRecordOpen(j, o)
  \/ \E j \in JobIds, w \in {"ok", "partial"} : ConvertRecordDump(j, w)
  \/ \E j \in JobIds : ConvertFinally(j)
  \/ ListGlob
  \/ ListLoad
  \/ ListIterdir
  \/ \E p \in scan.entries : ListIsFile(p)
  \/ ListStat
  \/ ListReturn
  \/ \E n \in NamesIn(files, OUTPUT_DIR) : DeleteOutputStep(n)

SpecWorkers == Init /\ [][NextWorkers]_vars

\* Output resolution on its own: a job stands right after an engine exit of
\* 0, with any staged input name (named after the job identifier or not)
\* and any of the candidate files present in the output directory.
ResolveFormats == {<<"pdf">>, <<"html">>}
ResolveStems == {Uuid(1), <<"deck">>}

ResolveCandidates(output_format) ==
  {Resolve(Join(OUTPUT_DIR, stem \o <<".">> \o output_format)) : stem \in ResolveStems}

InitResolve ==
  /\ \E endpoint \in Endpoints, output_format \in ResolveFormats, stem \in ResolveStems :
       \E outs \in SUBSET ResolveCandidates(output_format) :
         LET input_file == Join(UPLOAD_DIR, stem \o <<".", "pptx">>)
         IN /\ files = outs \cup {Resolve(input_file), SiblingFile, PasswdFile}
            /\ mtime = [p \in outs |-> 0]
            /\ job = [j \in JobIds |->
                 IF j = 1
                 THEN [Idle EXCEPT
                         !.pc = "resolve", !.endpoint = endpoint,
                         !.filename = <<"deck", ".", "pptx">>,
                         !.output_format = output_format,
                         !.file_id = Uuid(1), !.input_file = input_file,
                         !.output_file =
                            Join(OUTPUT_DIR, Uuid(1) \o <<".">> \o output_format),
                         !.convert_format = output_format]
                 ELSE Idle]
  /\ content = [p \in {} |-> PartialRecord]
  /\ clock = 1
  /\ nextId = 2
  /\ resp = NoResp
  /\ deleted = {}
  /\ scan = NoScan

NextResolve ==
  \/ \E j \in JobIds : ConvertResolve(j)
  \/ \E j \in JobIds, w \in {"ok", "partial", "nofile"} : ConvertRecord(j, w)
  \/ \E j \in JobIds : ConvertFinally(j)

SpecResolve == InitResolve /\ [][NextResolve]_vars

------------------------------------------------------------------------------
\* Properties.

\* The response in resp answers a conversion request that passed validation.
ConvertResponse == resp.op \in Endpoints /\ resp.status # 400

\* A path lies in the output store's root directory or below it
\* (component by component).
InsideRoot(p) ==
  LET root == Segments(Resolve(OUTPUT_DIR))
      segs == Segments(Resolve(p))
  IN Len(segs) >= Len(root) /\ SubSeq(segs, 1, Len(root)) = root

\* The files of the upload directory named after a job identifier.
StagedFor(fs, file_id) ==
  {p \in FilesIn(fs, UPLOAD_DIR) : StartsWith(Name(p), file_id)}

\* C1: a conversion that returns the converted file has added exactly one
\* file to the output directory (the one it returns), exactly one record to
\* the metadata directory (keyed by that file's name), and has left no
\* staged input named after its job identifier.
C1_SuccessOneArtifactOneRecord ==
  (resp.op \in Endpoints /\ resp.status = 200) =>
     /\ resp.newOut = {Name(resp.path)}
     /\ resp.newMeta = {Name(resp.path) \o <<".", "json">>}
     /\ IsFile(files, resp.path)
     /\ IsFile(files, Join(METADATA_DIR, Name(resp.path) \o <<".", "json">>))
     /\ ~resp.stagedLeft
     /\ StagedFor(files, resp.job.file_id) = {}

\* C2: a conversion that ends in an error (engine exit code, timeout,
\* missing output, or an exception while staging or recording) has added
\* no file to the output directory and none to the metadata directory, and
\* its staged input is gone. (Stated for the runs whose cleanup did not
\* raise; C3 is about the others.)
C2_FailureLeavesNothing ==
  (resp.op \in Endpoints /\ resp.detail \in {"timeout", "unexpected"}) =>
     /\ resp.newOut = {}
     /\ resp.newMeta = {}
     /\ ~resp.stagedLeft

\* C3: on every branch of a job that passed validation the cleanup ran
\* exactly once, the staged input is gone, and the cleanup did not raise
\* (the caller sees the job's own result).
C3_CleanupOnceNeverRaises ==
  ConvertResponse =>
     /\ resp.job.cleanups = 1
     /\ ~resp.stagedLeft
     /\ resp.detail # "cleanup_raised"
\* The extension and the output format as the format policy states them.
AcceptedExtensions == {"ppt", "pptx", "odp"}
AcceptedOutputs == {<<"pdf">>, <<"odp">>, <<"pptx">>, <<"html">>}

\* The file name ends in a dot and an accepted extension, in any case.
AcceptedInput(filename) ==
  /\ Len(filename) >= 3
  /\ filename[Len(filename) - 1] = "."
  /\ LowerTok(filename[Len(filename)]) \in AcceptedExtensions

AcceptedRequest(filename, output_format) ==
  AcceptedInput(filename) /\ output_format \in AcceptedOutputs

\* C4: a request with an input extension outside {ppt, pptx, odp} or an
\* output format outside {pdf, odp, pptx, html} never gets a handler past
\* validation (no identifier minted, nothing staged, no engine run), and the
\* step that answers it answers 400 and changes no file, no record, no job
\* and no identifier counter.
C4_InvalidRejectedBeforeIo ==
  /\ [](\A j \in JobIds :
          job[j].pc \notin {"idle", "done"} =>
            AcceptedRequest(job[j].filename, job[j].output_format))
  /\ [][ (resp' # resp /\ resp'.op \in Endpoints
          /\ ~AcceptedRequest(resp'.job.filename, resp'.job.output_format))
         => (/\ resp'.status = 400
             /\ resp'.job.file_id = NoText
             /\ UNCHANGED <<files, content, mtime, clock, nextId, job, deleted>>) ]_vars

C4_Witness ==
  /\ resp.op \in Endpoints /\ resp.status = 400
  /\ ~AcceptedRequest(resp.job.filename, resp.job.output_format)
  /\ resp.detail = "invalid_output"

\* C5: the file a download serves and the file a delete unlinks lie inside
\* the output store's root directory.
C5_ServedAndUnlinkedInsideRoot ==
  (resp.op \in {"download", "delete"} /\ resp.path # NoText) => InsideRoot(resp.path)

\* C6: a download or delete whose name resolves outside the root ends in
\* the access-denied outcome without having asked the file system about a
\* path outside the root. (Stated for the names whose resolved path does
\* not begin with the root's text; C5 is about the others.)
C6_EscapeRejectedUntouched ==
  (/\ resp.op \in {"download", "delete"}
   /\ ~InsideRoot(Join(OUTPUT_DIR, resp.name))
   /\ ~StartsWith(Resolve(Join(OUTPUT_DIR, resp.name)), Resolve(OUTPUT_DIR)))
  => (/\ resp.status = 403
      /\ \A p \in resp.probed : InsideRoot(p))

C8_DeleteMissingNoEffect ==
  [][ (resp'.op = "delete" /\ job' = job
       /\ ~IsFile(files, Join(OUTPUT_DIR, resp'.name)))
      => (/\ resp'.status = 404
          /\ files' = files /\ content' = content /\ mtime' = mtime) ]_vars

C8_Witness ==
  /\ resp.op = "delete" /\ resp.status = 404
  /\ IsFile(files, MetadataFile(Join(OUTPUT_DIR, resp.name)))

\* The metadata records of artifact name: the one at the filename-derived
\* path and the one at the job-id-derived path.
RecordsOf(fs, name) ==
  {p \in {Resolve(Join(METADATA_DIR, name \o <<".", "json">>)),
          Resolve(Join(METADATA_DIR, Stem(name) \o <<".", "json">>))} : p \in fs}

\* C9: a delete that succeeds returns metadata_removed = TRUE exactly when
\* it removed a record file, and leaves no record of the artifact under the
\* filename-derived or the job-id-derived path.
C9_DeleteRemovesRecord ==
  [][ (resp'.op = "delete" /\ job' = job /\ resp' # resp /\ resp'.status = 200)
      => (/\ resp'.metadata_removed
               = (FilesIn(files', METADATA_DIR) # FilesIn(files, METADATA_DIR))
          /\ RecordsOf(files', resp'.name) = {}) ]_vars

\* C10: every record a job has added to the metadata directory is keyed by
\* the name of a file whose existence check succeeded in that job, and its
\* output_filename is that name.
RecordsFollowCheck(added, confirmed) ==
  \A n \in added :
    \E c \in confirmed :
      /\ n = Name(c) \o <<".", "json">>
      /\ LET r == content[Resolve(Join(METADATA_DIR, n))]
         IN r.kind = "object" => r.output_filename = Name(c)

C10_RecordAfterConfirmation ==
  /\ \A j \in JobIds :
       job[j].pc \notin {"idle", "done"} =>
         RecordsFollowCheck(NamesIn(files, METADATA_DIR) \ job[j].preMeta,
                            job[j].confirmed)
  /\ ConvertResponse => RecordsFollowCheck(resp.newMeta, resp.job.confirmed)

C10_Witness ==
  /\ ConvertResponse /\ resp.status = 200
  /\ resp.newMeta # {} /\ resp.job.confirmed # {}

\* C12: an engine that exits non-zero, an engine that exceeds the bound and
\* a zero exit without an output file each reach the caller as their own
\* outcome; none of the three comes out as the generic unexpected-exception
\* outcome. (Stated for the runs whose cleanup did not raise.)
ConversionFailures ==
  {"HTTPException_engine_failed", "TimeoutExpired", "HTTPException_output_missing"}

C12_FailuresKeepTheirOutcome ==
  (ConvertResponse /\ resp.detail # "cleanup_raised"
     /\ resp.job.exc \in ConversionFailures)
  => resp.detail # "unexpected"

\* C14: on /convert the engine gets the tagged-PDF filter expression exactly
\* when the output format is pdf and use_tagged_pdf was requested, and the
\* plain format name otherwise; the record of a successful run carries the
\* original file name and the use_tagged_pdf value requested.
TaggedPdfFilter ==
  <<"pdf", ":", "impress_pdf_Export", ":", "{", "UseTaggedPDF=true", "}">>

ClaimedFormat(output_format, use_tagged_pdf) ==
  IF output_format = <<"pdf">> /\ use_tagged_pdf THEN TaggedPdfFilter
  ELSE output_format

C14_ResolveOptions ==
  /\ \A j \in JobIds :
       (job[j].endpoint = "convert" /\ job[j].pc \in {"resolve", "record"}) =>
         job[j].convert_format
           = ClaimedFormat(job[j].output_format, job[j].use_tagged_pdf)
  /\ (resp.op = "convert" /\ resp.status = 200) =>
       /\ resp.job.convert_format
            = ClaimedFormat(resp.job.output_format, resp.job.use_tagged_pdf)
       /\ LET r == content[Resolve(MetadataFile(resp.path))]
          IN /\ r.kind = "object" /\ r.has_options
             /\ r.use_tagged_pdf = resp.job.use_tagged_pdf
             /\ r.original_filename = resp.job.filename

C14_Witness ==
  /\ resp.op = "convert" /\ resp.status = 200
  /\ resp.job.output_format = <<"pdf">> /\ resp.job.use_tagged_pdf
  /\ resp.job.convert_format = TaggedPdfFilter

\* C20: whenever no handler is running, every file of the metadata
\* directory is named after a file that the output directory holds.
C20_NoOrphanMetadata ==
  ~Busy =>
    \A p \in FilesIn(files, METADATA_DIR) :
      \E a \in FilesIn(files, OUTPUT_DIR) : Name(p) = Name(a) \o <<".", "json">>

\* C15: one bad record never makes a listing or a delete fail: a listing
\* ends in success, and no delete ends in an exception raised by the index
\* rebuild.
C15_RebuildToleratesCorruptRecords ==
  /\ resp.op = "list" => resp.status = 200
  /\ resp.op = "delete" => resp.detail # "unhandled_AttributeError"

\* Line 269: the record files a listing may take the display name of the
\* artifact name from.
AttributedRecordFiles(fs, ct, name) ==
  LET by_output == {q \in LoadableRecords(fs, ct) :
                      OutputNameOf(ct, q) # NoText /\ OutputNameOf(ct, q) = name}
      by_id == {q \in LoadableRecords(fs, ct) :
                  ct[q].file_id # NoText /\ ct[q].file_id = Stem(name)}
  IN IF IndexRaises(fs, ct) THEN {}
     ELSE IF by_output # {} THEN by_output ELSE by_id

\* C19: a delete that succeeds removes every record file a listing would
\* have used for the artifact, and returns metadata_removed = TRUE when
\* there was one.
C19_DeleteAgreesWithList ==
  [][ (resp'.op = "delete" /\ job' = job /\ resp' # resp /\ resp'.status = 200)
      => LET attributed == AttributedRecordFiles(files, content, resp'.name)
         IN /\ attributed \cap files' = {}
            /\ attributed # {} => resp'.metadata_removed ]_vars

\* C13: after an engine exit of 0 the artifact is {job_id}.{output_format}
\* when that exists, else {staged input stem}.{output_format} when that
\* exists, else the job fails with the output-missing error; a job that
\* failed so has written no metadata record.
PredictedPath(j) ==
  Join(OUTPUT_DIR, job[j].file_id \o <<".">> \o job[j].output_format)

FallbackPath(j) ==
  Join(OUTPUT_DIR, Stem(job[j].input_file) \o <<".">> \o job[j].output_format)

C13_TwoStepResolution ==
  /\ [][ \A j \in JobIds :
           (job[j].pc = "resolve" /\ job'[j].pc # "resolve") =>
             IF Exists(files, PredictedPath(j))
             THEN job'[j].pc = "record" /\ job'[j].output_file = PredictedPath(j)
             ELSE IF Exists(files, FallbackPath(j))
             THEN job'[j].pc = "record" /\ job'[j].output_file = FallbackPath(j)
             ELSE /\ job'[j].pc = "finally"
                  /\ job'[j].exc = "HTTPException_output_missing" ]_vars
  /\ [](resp.job.exc = "HTTPException_output_missing" =>
          resp.newMeta = {} /\ resp.status = 500)

C13_Witness ==
  /\ resp.op \in Endpoints /\ resp.status = 200
  /\ Stem(resp.path) # resp.job.file_id
  /\ resp.newMeta = {Name(resp.path) \o <<".", "json">>}

\* A conversion handler that has started and not yet returned.
Running(j) == job[j].pc \notin {"idle", "done"}

\* The files a job names: its staged input, its artifact and its record.
PathsOf(jb) ==
  {Resolve(jb.input_file), Resolve(jb.output_file), Resolve(MetadataFile(jb.output_file))}

\* C11: with conversions interleaved, two running jobs differ in their
\* identifier, staged input path, artifact path and record path; a job that
\* starts takes paths at which no file is yet; and the step that ends one
\* job leaves the staged input of every other running job in place.
C11_JobsNeverCollide ==
  /\ [](\A j, k \in WorkerIds :
          (j # k /\ Running(j) /\ Running(k)) =>
            /\ job[j].file_id # job[k].file_id
            /\ PathsOf(job[j]) \cap PathsOf(job[k]) = {})
  /\ [][ \A j \in WorkerIds :
           (job[j].pc = "idle" /\ job'[j].pc # "idle") =>
             PathsOf(job'[j]) \cap files = {} ]_vars
  /\ [][ \A j, k \in WorkerIds :
           (j # k /\ job[j].pc = "finally" /\ job'[j].pc = "done" /\ Running(k)
              /\ IsFile(files, job[k].input_file))
           => IsFile(files', job[k].input_file) ]_vars

C11_Witness ==
  \E j, k \in WorkerIds :
    /\ j # k /\ job[j].pc = "done" /\ job[k].pc \in {"invoke", "resolve", "record"}
    /\ IsFile(files, job[k].input_file)
    /\ ~IsFile(files, Join(UPLOAD_DIR, Uuid(j) \o <<".", "pptx">>))
    /\ IsFile(files, Join(OUTPUT_DIR, Uuid(j) \o <<".", "pdf">>))

\* The steps of a conversion job, by the position of its handler.
JobTransitions ==
  { <<"idle", "invoke">>, <<"idle", "finally">>, <<"invoke", "resolve">>,
    <<"invoke", "finally">>, <<"resolve", "record">>, <<"resolve", "finally">>,
    <<"record", "finally">>, <<"finally", "done">> }

ClaimedBound(endpoint) == IF endpoint = "convert" THEN 120 ELSE 60

\* C18: every job that has started eventually ends; it moves only along
\* staged -> invoking -> (resolving, recording ->) cleanup -> ended; an
\* engine run that outlasts the bound (120 s on /convert, 60 s on
\* /convert_default) ends the invocation as a timeout and no other run does;
\* and a job ends with one outcome after its cleanup step ran once.
C18_EveryJobTerminates ==
  /\ \A j \in JobIds : (job[j].pc # "idle") ~> (job[j].pc = "done")
  /\ [][ \A j \in JobIds :
           job'[j].pc # job[j].pc =>
             /\ <<job[j].pc, job'[j].pc>> \in JobTransitions
             /\ job[j].pc = "invoke" =>
                  ((job'[j].duration > ClaimedBound(job[j].endpoint))
                     <=> (job'[j].pc = "finally" /\ job'[j].exc = "TimeoutExpired"))
             /\ job'[j].pc = "done" =>
                  /\ resp'.job.file_id = job[j].file_id
                  /\ resp'.job.cleanups = 1
                  /\ resp'.detail \in {"ok", "unexpected", "timeout", "cleanup_raised"}
                  /\ (job[j].exc = "TimeoutExpired" /\ resp'.detail # "cleanup_raised")
                       => resp'.detail = "timeout" ]_vars

C18_Witness ==
  /\ resp.op = "convert_default" /\ resp.detail = "timeout"
  /\ resp.job.duration = 90
  /\ \E j \in JobIds : job[j].pc = "done"

\* C16: an index rebuild that runs while a conversion is between creating
\* its record file and completing it sees that record as absent or as
\* written in full, never as a half-written file.
C16_RecordWriteAtomic ==
  [][ (scan.pc = "load" /\ scan'.pc # "load") =>
        \A j \in JobIds :
          (job[j].pc = "dump" /\ Resolve(job[j].metadata_file) \in DOMAIN scan'.seen)
            => scan'.seen[Resolve(job[j].metadata_file)].kind = "object" ]_vars

\* C17: a listing under way completes with status 200 whatever is created
\* or deleted meanwhile: an entry that is gone when it is opened or stat-ed
\* is left out of the listing.
C17_ScanToleratesChange ==
  [][ (scan.pc # "idle" /\ scan'.pc = "idle") =>
        /\ resp'.op = "list" /\ resp'.status = 200
        /\ \A i \in 1..Len(resp'.listing) :
             \E r \in scan.rows : resp'.listing[i] = r ]_vars

\* The artifact name built from a job's identifier.
JobArtifactName(jb) == jb.file_id \o <<".">> \o jb.output_format

\* C21: on both endpoints the fallback path of a job is its predicted
\* path; a job whose predicted path does not exist after the engine's exit
\* fails with the output-missing error, whatever else the engine wrote; and
\* every artifact returned or recorded is named {job_id}.{output_format}.
C21_FallbackIsPredicted ==
  /\ [](\A j \in JobIds :
          job[j].pc \notin {"idle", "done"} => FallbackPath(j) = PredictedPath(j))
  /\ [][ \A j \in JobIds :
           (job[j].pc = "resolve" /\ job'[j].pc # "resolve"
              /\ ~Exists(files, PredictedPath(j)))
           => (job'[j].pc = "finally" /\ job'[j].exc = "HTTPException_output_missing") ]_vars
  /\ []((resp.op \in Endpoints /\ resp.status = 200) =>
          Name(resp.path) = JobArtifactName(resp.job))
  /\ [](\A p \in DOMAIN content :
          content[p].kind = "object" =>
            (/\ content[p].output_filename = content[p].file_id \o <<".">> \o content[p].output_format
             /\ Name(p) = content[p].output_filename \o <<".", "json">>))

\* The engine exited with 0 and wrote its output under another name only:
\* the job ended with the output-missing error and recorded nothing.
C21_Witness ==
  /\ resp.op \in Endpoints
  /\ resp.job.exc = "HTTPException_output_missing"
  /\ resp.newOut # {} /\ JobArtifactName(resp.job) \notin resp.newOut
  /\ resp.newMeta = {}

====
